---- MODULE Spec2Model ----
(***************************************************************************)
(* A model of the production pipeline of LoadFile_Creator_4.1_Testing.py:  *)
(* LoadFileCreator.process_files (Bates pre-assignment, the email family   *)
(* pass, the thread pool of per-file tasks, page expansion), and the       *)
(* loadfile serializer write_loadfile.                                     *)
(*                                                                         *)
(* Text is modelled as a sequence of tokens (a token is one character,     *)
(* or a literal of the program that is never inspected below its own       *)
(* length, such as the Bates prefix).  A Python value is a record          *)
(* [t |-> type tag, s |-> text]: see PyStr, PyList, PyInt, PyNone.          *)
(***************************************************************************)
EXTENDS Integers, Sequences, FiniteSets, TLC

(***************************************************************************)
(* Bounds of the model.                                                    *)
(***************************************************************************)
MaxFiles == 2
MaxPages == 2
MaxWorkers == 2
MaxHash == 1

(***************************************************************************)
(* Program constants.                                                      *)
(***************************************************************************)
DefaultStart == 8378
ndigit == 8
HashKeyspace == 10000
HashTokenWidth == 4

prefix == <<"PL_WEATHERFORD">>
ProductionVolume == <<"PL_Weatherford_VOL4">>
Custodian == <<>>

(***************************************************************************)
(* Text helpers.                                                           *)
(***************************************************************************)
\* The characters file names are made of, in ASCII order.
Alphabet ==
    <<".", "0", "1", "2", "3", "4", "5", "6", "7", "8", "9",
      "A", "B", "N", "V", "_",
      "a", "b", "c", "d", "e", "f", "g", "h", "i", "l", "m", "n", "o", "p",
      "r", "s", "t", "v", "x">>

Ord(c) == CHOOSE i \in 1..Len(Alphabet) : Alphabet[i] = c

\* str.lower() on one character.
LowerChar(c) ==
    CASE c = "A" -> "a"
      [] c = "B" -> "b"
      [] c = "N" -> "n"
      [] c = "V" -> "v"
      [] OTHER -> c

Lower(s) == [i \in 1..Len(s) |-> LowerChar(s[i])]

\* s < t in Python's string order.
RECURSIVE LexLess(_, _)
LexLess(s, t) ==
    IF t = <<>> THEN FALSE
    ELSE IF s = <<>> THEN TRUE
    ELSE IF Ord(Head(s)) < Ord(Head(t)) THEN TRUE
    ELSE IF Ord(Head(s)) > Ord(Head(t)) THEN FALSE
    ELSE LexLess(Tail(s), Tail(t))

\* sub in s
StartsAt(s, i, sub) ==
    /\ i + Len(sub) - 1 <= Len(s)
    /\ \A j \in 1..Len(sub) : s[i + j - 1] = sub[j]

Contains(s, sub) == \E i \in 1..(Len(s) + 1) : StartsAt(s, i, sub)

\* s.replace(sub, '') for a non-empty sub
RECURSIVE Remove(_, _)
Remove(s, sub) ==
    IF s = <<>> THEN <<>>
    ELSE IF StartsAt(s, 1, sub) THEN Remove(SubSeq(s, Len(sub) + 1, Len(s)), sub)
    ELSE <<Head(s)>> \o Remove(Tail(s), sub)

\* s.split(c)[0]
RECURSIVE SplitFirst(_, _)
SplitFirst(s, c) ==
    IF s = <<>> \/ Head(s) = c THEN <<>>
    ELSE <<Head(s)>> \o SplitFirst(Tail(s), c)

IsDigit(c) == c \in {"0", "1", "2", "3", "4", "5", "6", "7", "8", "9"}

DigitChar(d) == <<"0", "1", "2", "3", "4", "5", "6", "7", "8", "9">>[d + 1]

DigitVal(c) == CHOOSE d \in 0..9 : DigitChar(d) = c

\* str(n) for n >= 0
RECURSIVE Digits(_)
Digits(n) == IF n < 10 THEN <<DigitChar(n)>> ELSE Digits(n \div 10) \o <<DigitChar(n % 10)>>

\* '{:0Wd}'.format(n) for n >= 0: zero-padded to width W, never truncated
RECURSIVE ZeroPad(_, _)
ZeroPad(s, w) == IF Len(s) >= w THEN s ELSE ZeroPad(<<"0">> \o s, w)

\* int(s): the value of a text of digits; Invalid when s is no integer literal
Invalid == -1

RECURSIVE DigitsValue(_, _)
DigitsValue(s, acc) ==
    IF s = <<>> THEN acc ELSE DigitsValue(Tail(s), 10 * acc + DigitVal(Head(s)))

ParseInt(s) ==
    IF s # <<>> /\ \A i \in 1..Len(s) : IsDigit(s[i]) THEN DigitsValue(s, 0) ELSE Invalid

\* os.path.splitext(base)[1]: from the last dot, unless only dots precede it
LastDot(s) == IF \E i \in 1..Len(s) : s[i] = "."
              THEN CHOOSE i \in 1..Len(s) : s[i] = "." /\ \A j \in (i + 1)..Len(s) : s[j] # "."
              ELSE 0

SplitExt(s) ==
    LET d == LastDot(s)
    IN IF d = 0 \/ \A j \in 1..(d - 1) : s[j] = "." THEN <<>> ELSE SubSeq(s, d, Len(s))

(***************************************************************************)
(* Python values.                                                          *)
(***************************************************************************)
PyNone == [t |-> "None", s |-> <<>>]
PyStr(s) == [t |-> "str", s |-> s]
\* a one-element list [s], as the extraction collaborator returns for a multi-valued key
PyList(s) == [t |-> "list", s |-> s]
PyInt(n) == [t |-> "int", s |-> Digits(n)]

\* bool(v)
Truthy(v) ==
    CASE v.t = "None" -> FALSE
      [] v.t = "str" -> v.s # <<>>
      [] v.t = "list" -> TRUE
      [] v.t = "int" -> v.s # <<"0">>

\* hash(v) raises TypeError for a list
Hashable(v) == v.t # "list"

\* str(v)
Str(v) ==
    CASE v.t = "None" -> <<"N", "o", "n", "e">>
      [] v.t = "str" -> v.s
      [] v.t = "int" -> v.s
      [] v.t = "list" -> <<"[", "'">> \o v.s \o <<"'", "]">>

\* d.get(k, default) on a mapping modelled as a function
Get(d, k, default) == IF k \in DOMAIN d THEN d[k] ELSE default

(***************************************************************************)
(* Input files.  A file name (fname) is a directory and a base name; the   *)
(* extraction collaborator's answer for a file (its metadata mapping) and  *)
(* the number of pages of a paginated file belong to the input.            *)
(***************************************************************************)
File(d, b) == [dir |-> d, base |-> b]

basename(fname) == fname.base

FA == File("in", <<"a", ".", "m", "s", "g">>)
FB == File("in", <<"B", ".", "e", "m", "l">>)
FC == File("in", <<"c", ".", "p", "d", "f">>)
FD == File("in", <<"d", ".", "t", "i", "f">>)
FE == File("in", <<"e", ".", "m", "s", "g">>)
FG == File("in", <<"g", ".", "e", "m", "l">>)
FH == File("in", <<"h", ".", "m", "s", "g">>)
FN == File("in", <<"n", "_", "a", "t", "t", ".", "t", "x", "t">>)
FM == File("in", <<"N", "_", "a", "t", "t", ".", "d", "o", "c">>)
FV == File("in", <<"v", "1", ".", "t", "x", "t">>)

Universe == {FA, FB, FC, FD, FE, FG, FH, FN, FM, FV}

\* the extension as process_single_file and _group_email_files compute it
ExtOf(fname) == SplitExt(basename(fname))

FileExtensionOf(fname) == Remove(Lower(ExtOf(fname)), <<".">>)

EmailExts == {<<".", "m", "s", "g">>, <<".", "e", "m", "l">>, <<".", "p", "s", "t">>}

IsEmailFile(fname) == Lower(ExtOf(fname)) \in EmailExts

IsPdf(fname) == Lower(ExtOf(fname)) = <<".", "p", "d", "f">>

IsTiff(fname) == FileExtensionOf(fname) \in {<<"t", "i", "f">>, <<"t", "i", "f", "f">>}

IsPaginated(fname) == IsPdf(fname) \/ IsTiff(fname)

\* the bytes of an input file: e.msg is a copy of a.msg
BytesOf(fname) ==
    IF fname \in {FA, FE} THEN <<"bytes:">> \o basename(FA)
    ELSE <<"bytes:">> \o basename(fname)

\* parsed['content']: the text the extraction collaborator returns for a
\* file, beside its metadata mapping
ContentOf(fname) ==
    CASE fname = FN -> <<"s", "e", "e", " ", "[REDACTED]">>
      [] fname = FD -> <<"***">>
      [] OTHER -> <<"t", "e", "x", "t">>

\* a timestamp as the extraction collaborator reports it: 2020-01-02T03:04:05Z
IsoStamp ==
    <<"2", "0", "2", "0", "-", "0", "1", "-", "0", "2", "T",
      "0", "3", ":", "0", "4", ":", "0", "5", "Z">>

\* metadata mappings of the input files of the pipeline specification
MetaOf(fname) ==
    CASE fname = FA -> [x \in {"Thread-Index", "Subject", "From"} |->
                          CASE x = "Thread-Index" -> PyStr(<<"T1">>)
                            [] x = "Subject" -> PyStr(<<"S1">>)
                            [] x = "From" -> PyStr(<<"F1">>)]
      [] fname \in {FB, FE} -> [x \in {"Thread-Index"} |-> PyList(<<"T1">>)]
      [] fname = FG -> [x \in {"Thread-Index", "Message-ID", "Subject", "Date",
                                "Creation-Date", "Last-Modified"} |->
                          CASE x = "Thread-Index" -> PyStr(<<>>)
                            [] x = "Message-ID" -> PyStr(<<"M1">>)
                            [] x = "Subject" -> PyStr(<<"S1">>)
                            [] OTHER -> PyStr(IsoStamp)]
      [] OTHER -> [x \in {} |-> PyNone]

(***************************************************************************)
(* get_bates                                                               *)
(***************************************************************************)
get_bates(pfx, value) == pfx \o ZeroPad(Digits(value), ndigit)

\* int(base_bates.replace(self.prefix, ''))
BatesSuffix(bates) == ParseInt(Remove(bates, prefix))

(***************************************************************************)
(* _group_email_files: the family key of one email file.                   *)
(***************************************************************************)
EmptyStr == PyStr(<<>>)

\* metadata.get('Thread-Index', metadata.get('Message-ID', ''))
ThreadIdOf(metadata) == Get(metadata, "Thread-Index", Get(metadata, "Message-ID", EmptyStr))

\* What the pass hashes for a file, and the prefix of its key.  raised: the
\* extraction collaborator raised for this file.  hash() of a list raises
\* TypeError inside the try block, which the except branch turns into a key
\* of the file name.
EmailHashArg(fname, metadata, raised) ==
    LET thread_id == ThreadIdOf(metadata)
        subject == Get(metadata, "Subject", EmptyStr)
        from_addr == Get(metadata, "From", EmptyStr)
        byName == [kind |-> "EMAIL_FILE_", arg |-> basename(fname)]
    IN IF raised THEN byName
       ELSE IF Truthy(thread_id)
            THEN IF Hashable(thread_id)
                 THEN [kind |-> "EMAIL_THREAD_", arg |-> thread_id.s] ELSE byName
       ELSE IF Truthy(subject)
            THEN IF Hashable(subject)
                 THEN [kind |-> "EMAIL_SUBJECT_", arg |-> subject.s] ELSE byName
       ELSE IF Hashable(from_addr)
            THEN [kind |-> "EMAIL_FROM_", arg |-> from_addr.s] ELSE byName

\* f"{kind}{hash(arg) % 10000:04d}"
FamilyToken(kind, hashValue) ==
    <<kind>> \o ZeroPad(Digits(hashValue % HashKeyspace), HashTokenWidth)

(***************************************************************************)
(* State.                                                                  *)
(***************************************************************************)
VARIABLES
    start_value,         \* self.start_value
    indir,               \* the files of the input directory
    meta,                \* fname -> metadata mapping the extraction collaborator returns
    npages,              \* paginated fname -> number of pages
    max_workers,         \* processing_settings.max_workers
    pc,                  \* where the main thread is
    all_files,           \* process_files: the sorted file list
    email_families,      \* process_files: family key -> list of email files
    bates_assignments,   \* process_files: fname -> Bates number
    files_with_families, \* process_files: list of (fname, family_id)
    task,                \* fname -> state of its process_single_file task
    document_families,   \* self.document_families
    family_counter,      \* self.family_counter
    docs,                \* self.docs
    opt_data,            \* self.opt_data
    processed_count,
    failed_count,
    collected,           \* futures as_completed has yielded
    deadline,            \* max_total_timeout has elapsed since start_time
    opt_src,             \* for each entry of opt_data, the file it was derived from
    doc_src,             \* for each record of docs, the file it was built for
    loadfile,            \* the text of loadfile.dat
    integrity,           \* the results run_data_integrity_tests has printed, per run
    batches,             \* ReviewWorkflow.batches: batch_id -> ReviewBatch
    file_reviews,        \* ReviewWorkflow.file_reviews: file_id -> FileReview
    loadfile_config      \* config_manager.get_loadfile_config(): delimiter, wrapper, encoding

vars == <<loadfile_config, batches, file_reviews, integrity, start_value, indir, meta, npages, max_workers, pc, all_files, email_families,
          bates_assignments, files_with_families, task, document_families,
          family_counter, docs, opt_data, processed_count, failed_count,
          collected, deadline, opt_src, doc_src, loadfile>>


\* all_files.sort(key=lambda x: os.path.basename(x).lower()) over glob's (unordered) listing
SortKey(fname) == Lower(basename(fname))

IsSortedListing(fs, seq) ==
    /\ Len(seq) = Cardinality(fs)
    /\ {seq[i] : i \in 1..Len(seq)} = fs
    /\ \A i \in 1..(Len(seq) - 1) : ~LexLess(SortKey(seq[i + 1]), SortKey(seq[i]))

SortedListings(fs) ==
    {seq \in [1..Cardinality(fs) -> fs] : IsSortedListing(fs, seq)}

Range(seq) == {seq[i] : i \in 1..Len(seq)}

IndexOf(seq, x) == CHOOSE i \in 1..Len(seq) : seq[i] = x

(***************************************************************************)
(* identify_document_family: which key of self.document_families a file    *)
(* resolves, before the get-or-create on the shared map.                   *)
(***************************************************************************)
\* the number of digits of s from position i on
RECURSIVE DigitRun(_, _)
DigitRun(s, i) == IF i <= Len(s) /\ IsDigit(s[i]) THEN 1 + DigitRun(s, i + 1) ELSE 0

\* The length of the match of [vV]ersion?\d*|rev\d*|v\d* at the head of s (0: none);
\* the alternatives are tried in order.
VersionMatchLen(s) ==
    LET versio == <<"e", "r", "s", "i", "o">>
    IN IF s # <<>> /\ Head(s) \in {"v", "V"} /\ StartsAt(s, 2, versio)
       THEN LET n == IF Len(s) >= 7 /\ s[7] = "n" THEN 1 ELSE 0
            IN 6 + n + DigitRun(s, 7 + n)
       ELSE IF StartsAt(s, 1, <<"r", "e", "v">>) THEN 3 + DigitRun(s, 4)
       ELSE IF s # <<>> /\ Head(s) = "v" THEN 1 + DigitRun(s, 2)
       ELSE 0

\* re.sub(r'[vV]ersion?\d*|rev\d*|v\d*', '', s)
RECURSIVE StripVersion(_)
StripVersion(s) ==
    IF s = <<>> THEN <<>>
    ELSE LET n == VersionMatchLen(s)
         IN IF n > 0 THEN StripVersion(SubSeq(s, n + 1, Len(s)))
            ELSE <<Head(s)>> \o StripVersion(Tail(s))

NoKey == [kind |-> "none", key |-> <<>>]
KeyRaise == [kind |-> "raise", key |-> <<>>]
FamKey(k) == [kind |-> "key", key |-> k]

\* The branch identify_document_family takes for a file: the key it gets or
\* creates, "none" when it returns None without touching the map, "raise"
\* when the membership test raises (a list is unhashable).
FamilyLookup(fname, metadata) ==
    LET filename == Lower(basename(fname))
        thread_id == ThreadIdOf(metadata)
        emailLike == \E e \in EmailExts : Contains(filename, e)
        att == Contains(filename, <<"a", "t", "t">>)
        version == Contains(filename, <<"v">>) \/ Contains(filename, <<"r", "e", "v">>)
    IN IF emailLike /\ Truthy(thread_id)
       THEN IF Hashable(thread_id) THEN FamKey(thread_id.s) ELSE KeyRaise
       ELSE IF att
            THEN FamKey(IF Contains(filename, <<"_">>) THEN SplitFirst(filename, "_")
                        ELSE SplitFirst(filename, "."))
       ELSE IF version THEN FamKey(StripVersion(filename))
       ELSE NoKey

(***************************************************************************)
(* The record of one file (doc_entry of process_single_file).              *)
(***************************************************************************)
\* the volume_name argument of process_files, write_opt_file and write_loadfile
volume_name == <<"VOL">>

\* get_enhanced_metadata_mapping()[field].get(FileExtension, None): the raw
\* metadata key of a schema field for a format, "" when the table has none
metadata_kws(field, ext) ==
    LET pdf == ext = <<"p", "d", "f">>
        docx == ext = <<"d", "o", "c", "x">>
        pptx == ext = <<"p", "p", "t", "x">>
        msg == ext = <<"m", "s", "g">>
        eml == ext = <<"e", "m", "l">>
        pst == ext = <<"p", "s", "t">>
    IN CASE field = "title" ->
              IF pdf \/ docx \/ pptx THEN "title" ELSE IF msg \/ eml THEN "Subject" ELSE ""
         [] field = "Author" ->
              IF pdf THEN "meta:author" ELSE IF pptx THEN "dc:title"
              ELSE IF docx THEN "author" ELSE IF msg \/ eml THEN "From" ELSE ""
         [] field \in {"From", "To", "CC", "BCC", "Message-ID", "Thread-Index"} ->
              IF msg \/ eml \/ pst THEN field ELSE ""
         [] field \in {"DateSent", "TimeSent", "DateReceived", "TimeReceived"} ->
              IF msg \/ eml \/ pst THEN "Date" ELSE ""
         [] field = "Page Count" ->
              IF pdf THEN "xmpTPg:NPages" ELSE IF docx THEN "Page Count"
              ELSE IF pptx THEN "Slide Count" ELSE ""
         [] field = "charsperpage" -> IF pdf THEN "pdf:charsPerPage" ELSE ""
         [] field = "charcount" -> IF docx THEN "Character Count" ELSE ""
         [] OTHER -> ""

\* metadata.get(metadata_kws[field].get(FileExtension, None), None)
Mapped(metadata, field, ext) == Get(metadata, metadata_kws(field, ext), PyNone)

\* the metadata mapping of the parsed file: chunk_pdf_and_parse records the
\* page count of a PDF in it
ParsedMetadata(fname, metadata, pages) ==
    IF IsPdf(fname)
    THEN [k \in DOMAIN metadata \cup {"xmpTPg:NPages"} |->
             IF k = "xmpTPg:NPages" THEN PyStr(Digits(pages)) ELSE metadata[k]]
    ELSE metadata

\* hashlib.md5(fname.encode()).hexdigest(): a digest of the file's path
PathDigest(fname) == <<"md5:", fname.dir, "/">> \o basename(fname)

ImageExts == {<<"t", "i", "f">>, <<"t", "i", "f", "f">>, <<"j", "p", "g">>,
              <<"j", "p", "e", "g">>, <<"p", "n", "g">>}

Subdir(fname) == IF FileExtensionOf(fname) \in ImageExts THEN "IMAGES" ELSE "NATIVES"

NativeLocation(fname, BegBates) ==
    volume_name \o <<"/", Subdir(fname), "/", "0000", "/">> \o BegBates \o ExtOf(fname)

TextLocation(BegBates) ==
    volume_name \o <<"/", "TEXT", "/", "0000", "/">> \o BegBates \o <<".txt">>

\* COMPLETE Casedoxx field list of write_loadfile
cols ==
    <<"BegBates", "EndBates", "HashValue", "FileExtension", "Filename", "NativeLocation",
      "TextLocation", "BegAttach", "EndAttach", "Custodian", "Duplicate Custodian",
      "Original FilePath", "Subject", "Title", "Author", "From", "To", "CC", "BCC",
      "DateSent", "TimeSent", "DateReceived", "TimeReceived", "DateCreated", "TimeCreated",
      "DateLastModified", "Message-ID", "Thread-Index", "Foreign Language", "Page Count",
      "charsperpage", "charcount", "Confidentiality", "Privilege", "RedactionType",
      "DocType", "FamilyID", "ParentID", "Production Volume">>

ColSet == {cols[i] : i \in 1..Len(cols)}

(***************************************************************************)
(* convert_date_safe / convert_time_safe                                   *)
(***************************************************************************)
\* s.find(c): the first position of c in s (1-based), 0 when absent
FindChar(s, c) ==
    IF \E i \in 1..Len(s) : s[i] = c
    THEN CHOOSE i \in 1..Len(s) : s[i] = c /\ \A j \in 1..(i - 1) : s[j] # c
    ELSE 0

\* s.replace(sub, ''), where sub may be empty
Replace(s, sub) == IF sub = <<>> THEN s ELSE Remove(s, sub)

\* the text handed to strptime, or <<>> when indexing orig_date[-1] raises
StampText(orig_date) ==
    LET dot == FindChar(orig_date, ".")
        bad == IF dot = 0 THEN <<>> ELSE SubSeq(orig_date, dot, Len(orig_date) - 1)
        cut == Replace(orig_date, bad)
        zed == IF cut = <<>> THEN <<>>
               ELSE IF cut[Len(cut)] # "Z" THEN cut \o <<"Z">> ELSE cut
    IN Replace(zed, <<"0", "0", "0", "0", "0", "0", "0">>)

\* One numeric field of the strptime format: the digits of s from position i
\* on, at most max of them, as [len, val]; len = 0 when there is none.
Field(s, i, max) ==
    LET run == DigitRun(s, i)
        len == IF run > max THEN max ELSE run
    IN [len |-> len, val |-> IF len = 0 THEN 0 ELSE DigitsValue(SubSeq(s, i, i + len - 1), 0)]

DaysIn(y, m) ==
    IF m \in {4, 6, 9, 11} THEN 30
    ELSE IF m = 2
         THEN IF (y % 4 = 0 /\ y % 100 # 0) \/ y % 400 = 0 THEN 29 ELSE 28
    ELSE 31

NoStamp == [ok |-> FALSE, y |-> 0, mo |-> 0, d |-> 0, h |-> 0, mi |-> 0, sec |-> 0]

\* datetime.strptime(s, "%Y-%m-%dT%H:%M:%SZ"): every field is followed by its
\* literal, nothing may remain, and the fields must make a valid datetime
strptime(s) ==
    LET y == Field(s, 1, 4)
        p1 == 1 + y.len
        mo == Field(s, p1 + 1, 2)
        p2 == p1 + 1 + mo.len
        d == Field(s, p2 + 1, 2)
        p3 == p2 + 1 + d.len
        h == Field(s, p3 + 1, 2)
        p4 == p3 + 1 + h.len
        mi == Field(s, p4 + 1, 2)
        p5 == p4 + 1 + mi.len
        sec == Field(s, p5 + 1, 2)
        p6 == p5 + 1 + sec.len
        At(p, c) == p <= Len(s) /\ s[p] = c
    IN IF /\ y.len = 4 /\ At(p1, "-")
          /\ mo.len > 0 /\ mo.val \in 1..12 /\ At(p2, "-")
          /\ d.len > 0 /\ d.val \in 1..31 /\ At(p3, "T")
          /\ h.len > 0 /\ h.val \in 0..23 /\ At(p4, ":")
          /\ mi.len > 0 /\ mi.val \in 0..59 /\ At(p5, ":")
          /\ sec.len > 0 /\ sec.val \in 0..59 /\ At(p6, "Z")
          /\ Len(s) = p6
          /\ y.val >= 1 /\ d.val <= DaysIn(y.val, mo.val)
       THEN [ok |-> TRUE, y |-> y.val, mo |-> mo.val, d |-> d.val,
             h |-> h.val, mi |-> mi.val, sec |-> sec.val]
       ELSE NoStamp

\* the stamp convert_date_safe and convert_time_safe parse from a raw value
ParsedStamp(orig_date) ==
    IF ~Truthy(orig_date) \/ orig_date.t \notin {"str", "list"} THEN NoStamp
    ELSE strptime(StampText(orig_date.s))

\* parsed_date.strftime('%m/%d/%Y')
convert_date_safe(orig_date) ==
    LET p == ParsedStamp(orig_date)
    IN IF ~p.ok THEN PyNone
       ELSE PyStr(ZeroPad(Digits(p.mo), 2) \o <<"/">> \o ZeroPad(Digits(p.d), 2)
                  \o <<"/">> \o ZeroPad(Digits(p.y), 4))

\* parsed_date.strftime('%H:%M:%S')
convert_time_safe(orig_date) ==
    LET p == ParsedStamp(orig_date)
    IN IF ~p.ok THEN PyNone
       ELSE PyStr(ZeroPad(Digits(p.h), 2) \o <<":">> \o ZeroPad(Digits(p.mi), 2)
                  \o <<":">> \o ZeroPad(Digits(p.sec), 2))

(***************************************************************************)
(* Classification and the record builder.                                  *)
(***************************************************************************)
determine_document_type(fname) ==
    LET e == Lower(ExtOf(fname))
        x == IF e = <<>> THEN <<>> ELSE Tail(e)
    IN CASE x \in {<<"m", "s", "g">>, <<"e", "m", "l">>, <<"p", "s", "t">>} -> <<"Email">>
         [] x \in {<<"d", "o", "c">>, <<"d", "o", "c", "x">>} -> <<"Word Document">>
         [] x \in {<<"x", "l", "s">>, <<"x", "l", "s", "x">>} -> <<"Spreadsheet">>
         [] x \in {<<"p", "p", "t">>, <<"p", "p", "t", "x">>} -> <<"Presentation">>
         [] x = <<"p", "d", "f">> -> <<"PDF Document">>
         [] x \in ImageExts \cup {<<"b", "m", "p">>} -> <<"Image">>
         [] x \in {<<"t", "x", "t">>, <<"r", "t", "f">>} -> <<"Text Document">>
         [] x \in {<<"z", "i", "p">>, <<"r", "a", "r">>, <<"7", "z">>} -> <<"Archive">>
         [] OTHER -> <<"Unknown">>

\* metadata is the metadata mapping of the parsed file: 'content' is looked
\* up in it
determine_redaction_type(fname, metadata) ==
    LET filename == Lower(basename(fname))
        content == Get(metadata, "content", EmptyStr)
    IN IF Contains(filename, <<"r", "e", "d", "a", "c", "t", "e", "d">>) THEN <<"Redacted">>
       ELSE IF Contains(filename, <<"p", "r", "i", "v", "i", "l", "e", "g", "e", "d">>)
            THEN <<"Privileged">>
       ELSE IF Contains(filename,
                        <<"c", "o", "n", "f", "i", "d", "e", "n", "t", "i", "a", "l">>)
            THEN <<"Confidential">>
       ELSE IF Contains(content.s, <<"[REDACTED]">>) \/ Contains(content.s, <<"***">>)
            THEN <<"Redacted">>
       ELSE <<"None">>

\* doc_entry, from the task's BegBates and final_family_id
\* a record whose digest was never computed
DocEntry_undigested(fname, metadata, BegBates, final_family_id) ==
    [c \in ColSet |->
        CASE c \in {"BegBates", "EndBates"} -> PyStr(BegBates)
          [] c = "Filename" -> PyStr(basename(fname))
          [] c = "NativeLocation" -> PyStr(NativeLocation(fname, BegBates))
          [] c = "TextLocation" -> PyStr(TextLocation(BegBates))
          [] c = "FamilyID" -> IF Truthy(final_family_id) THEN final_family_id ELSE EmptyStr
          [] c \in {"HashValue", "Subject"} -> Get(metadata, c, PyNone)
          [] OTHER -> EmptyStr]

\* a record whose EndBates is the number of the file's last page
DocEntry_paged(fname, metadata, BegBates, final_family_id) ==
    [DocEntry_undigested(fname, metadata, BegBates, final_family_id) EXCEPT
        !["HashValue"] = PyStr(PathDigest(fname)),
        !["EndBates"] = PyStr(get_bates(prefix,
                                        BatesSuffix(BegBates) + Get(npages, fname, 1) - 1))]

DocEntry(fname, metadata, BegBates, final_family_id) ==
    LET ext == FileExtensionOf(fname)
        date_created == Get(metadata, "Creation-Date", PyNone)
        rawExt == ExtOf(fname)
    IN [c \in ColSet |->
        CASE c \in {"BegBates", "EndBates"} -> PyStr(BegBates)
          [] c = "HashValue" -> PyStr(PathDigest(fname))
          [] c = "FileExtension" -> PyStr(IF rawExt = <<>> THEN <<>> ELSE Tail(rawExt))
          [] c = "Filename" -> PyStr(basename(fname))
          [] c = "NativeLocation" -> PyStr(NativeLocation(fname, BegBates))
          [] c = "TextLocation" -> PyStr(TextLocation(BegBates))
          [] c \in {"BegAttach", "EndAttach", "Duplicate Custodian", "Original FilePath",
                    "ParentID"} -> EmptyStr
          [] c = "Custodian" -> PyStr(Custodian)
          [] c = "Subject" -> Get(metadata, "Subject", PyNone)
          [] c = "Title" -> Mapped(metadata, "title", ext)
          [] c \in {"Author", "From", "To", "CC", "BCC", "DateSent", "TimeSent",
                    "DateReceived", "TimeReceived", "Message-ID", "Thread-Index",
                    "Page Count", "charsperpage", "charcount"} -> Mapped(metadata, c, ext)
          [] c = "DateCreated" ->
               IF date_created = PyNone THEN PyNone ELSE convert_date_safe(date_created)
          [] c = "TimeCreated" ->
               IF date_created = PyNone THEN PyNone ELSE convert_time_safe(date_created)
          [] c = "DateLastModified" -> Get(metadata, "Last-Modified", PyNone)
          [] c \in {"Foreign Language", "Confidentiality", "Privilege"} ->
               Get(metadata, c, EmptyStr)
          [] c = "RedactionType" -> PyStr(determine_redaction_type(fname, metadata))
          [] c = "DocType" -> PyStr(determine_document_type(fname))
          [] c = "FamilyID" -> IF Truthy(final_family_id) THEN final_family_id ELSE EmptyStr
          [] c = "Production Volume" -> PyStr(ProductionVolume)]

(***************************************************************************)
(* PageEntry (the dicts of self.opt_data).                                 *)
(***************************************************************************)
\* the entry _process_pdf_pages and _process_tiff_pages append for page page_num
\* page numbers that start one after the base
PageBates_next(base_bates, page_num) ==
    get_bates(prefix, BatesSuffix(base_bates) + page_num + 1)

PageBates(base_bates, page_num) == get_bates(prefix, BatesSuffix(base_bates) + page_num)

PageEntry(base_bates, page_num, total_pages) ==
    LET page_bates == PageBates(base_bates, page_num)
    IN [bates |-> page_bates,
        volume |-> volume_name,
        path |-> volume_name \o <<"/", "IMAGES", "/", "0000", "/">> \o page_bates
                 \o <<".tiff">>,
        first_page |-> IF page_num = 0 THEN PyStr(<<"Y">>) ELSE EmptyStr,
        npages |-> IF page_num = 0 THEN PyInt(total_pages) ELSE EmptyStr]

(***************************************************************************)
(* write_loadfile                                                          *)
(***************************************************************************)
\* chr(int(loadfile_settings.delimiter, 16)), chr(int(loadfile_settings.wrapper, 16))
\* the characters chr(0x14) and chr(0xFE), and two printable ones
CHR_X14 == "<0x14>"
CHR_XFE == "<0xFE>"
CHR_X2C == ","
CHR_X22 == "<0x22>"

\* loadfile_config.get("delimiter", "0x14"), .get("wrapper", "0xFE"), .get('encoding', 'utf-8')
DefaultLoadfileConfig == [delimiter |-> CHR_X14, wrapper |-> CHR_XFE, encoding |-> "utf-8"]

delim == loadfile_config.delimiter
wrap == loadfile_config.wrapper
newline == "\n"

\* delim.join(parts)
RECURSIVE Join(_, _)
Join(parts, sep) ==
    IF parts = <<>> THEN <<>>
    ELSE IF Len(parts) = 1 THEN parts[1]
    ELSE parts[1] \o <<sep>> \o Join(Tail(parts), sep)

\* wrap + (str(doc.get(c, '')) if doc.get(c, '') is not None else '') + wrap
WrappedField(doc, c) ==
    LET v == Get(doc, c, EmptyStr)
    IN <<wrap>> \o (IF v.t = "None" THEN <<>> ELSE Str(v)) \o <<wrap>>

HeaderLine == Join([i \in 1..Len(cols) |-> <<wrap, cols[i], wrap>>], delim) \o <<newline>>

\* a data line whose values are written without the wrapper
DataLine_unwrapped(doc) ==
    Join([i \in 1..Len(cols) |->
            LET v == Get(doc, cols[i], EmptyStr) IN IF v.t = "None" THEN <<>> ELSE Str(v)],
         delim) \o <<newline>>

DataLine(doc) == Join([i \in 1..Len(cols) |-> WrappedField(doc, cols[i])], delim) \o <<newline>>

\* the text of loadfile.dat: the header write and one write per record
RECURSIVE DataLines(_)
DataLines(ds) == IF ds = <<>> THEN <<>> ELSE DataLine(Head(ds)) \o DataLines(Tail(ds))

LoadfileText(ds) == HeaderLine \o DataLines(ds)

(***************************************************************************)
(* process_files up to the submission of the tasks.                        *)
(***************************************************************************)
LongPdfPages == 11
ParseChunkPages == 10

\* a pre-assignment that numbers the files from start + 1
PreAssign_shifted(files, start) ==
    [f \in Range(files) |-> get_bates(prefix, start + IndexOf(files, f))]

\* bates_assignments: for i, fname in enumerate(all_files)
PreAssign(files, start) ==
    [f \in Range(files) |-> get_bates(prefix, start + (IndexOf(files, f) - 1))]

\* a numbering that counts the records published so far
get_bates_for_file_by_completion(assignments, bates_counter, fname) ==
    get_bates(prefix, bates_counter + Len(docs))

\* get_bates_for_file
get_bates_for_file(assignments, bates_counter, fname) ==
    IF fname \in DOMAIN assignments THEN assignments[fname]
    ELSE get_bates(prefix, bates_counter)

\* an email pass without the except branch: a file whose analysis raised is
\* in no family
GroupEmailFiles_dropping(files, raised, h) ==
    LET emails == {f \in Range(files) : IsEmailFile(f)}
        arg(f) == EmailHashArg(f, meta[f], f \in raised)
        keyOf(f) == FamilyToken(arg(f).kind, h[arg(f).arg])
        kept == {f \in emails : arg(f).kind # "EMAIL_FILE_"}
    IN [k \in {keyOf(f) : f \in kept} |->
           SelectSeq(files, LAMBDA f : f \in kept /\ keyOf(f) = k)]

\* _group_email_files, given for which files the extraction collaborator
\* raised and the values of hash() in this process
GroupEmailFiles(files, raised, h) ==
    LET emails == {f \in Range(files) : IsEmailFile(f)}
        arg(f) == EmailHashArg(f, meta[f], f \in raised)
        keyOf(f) == FamilyToken(arg(f).kind, h[arg(f).arg])
    IN [k \in {keyOf(f) : f \in emails} |->
           SelectSeq(files, LAMBDA f : f \in emails /\ keyOf(f) = k)]

HashArgs(files, raised) ==
    {EmailHashArg(f, meta[f], f \in raised).arg : f \in {g \in Range(files) : IsEmailFile(g)}}

\* files_with_families: the key of the first family that lists the file, else None
FamilyIdOf(families, fname) ==
    IF \E k \in DOMAIN families : fname \in Range(families[k])
    THEN PyStr(CHOOSE k \in DOMAIN families : fname \in Range(families[k]))
    ELSE PyNone

FilesWithFamilies(files, families) ==
    [i \in 1..Len(files) |-> <<files[i], FamilyIdOf(families, files[i])>>]

QueuedTask ==
    [pc |-> "queued", BegBates |-> <<>>, family |-> PyNone, key |-> <<>>, tmp |-> 0,
     page |-> 0, total |-> 0, result |-> "none", xraised |-> "no"]

\* The state after LoadFileCreator.__init__, for an input directory holding
\* some files of universe, whose PDFs have a page count in pdfPages, and a
\* start value of starts (8378 unless the caller sets the attribute).
InitState(dirs, pdfPages, starts, extractions) ==
    /\ start_value \in starts
    /\ indir \in dirs
    /\ meta \in {[f \in indir |-> m[f]] : m \in extractions}
    /\ npages \in {np \in [{f \in indir : IsPaginated(f)} -> (1..MaxPages) \cup pdfPages] :
                     \A f \in DOMAIN np : np[f] \in (IF IsPdf(f) THEN pdfPages ELSE 1..MaxPages)}
    /\ max_workers \in 1..MaxWorkers
    /\ pc = "start"
    /\ all_files = <<>>
    /\ email_families = <<>>
    /\ bates_assignments = <<>>
    /\ files_with_families = <<>>
    /\ task = <<>>
    /\ document_families = <<>>
    /\ family_counter = 1
    /\ docs = <<>>
    /\ opt_data = <<>>
    /\ processed_count = 0
    /\ failed_count = 0
    /\ collected = {}
    /\ deadline = FALSE
    /\ opt_src = <<>>
    /\ doc_src = <<>>
    /\ loadfile = <<>>
    /\ integrity = <<>>
    /\ batches = <<>>
    /\ file_reviews = <<>>

\* the files have the metadata of MetaOf
InitWith(dirs, pdfPages, starts) ==
    /\ InitState(dirs, pdfPages, starts, {[f \in Universe |-> MetaOf(f)]})
    /\ loadfile_config = DefaultLoadfileConfig

\* the input directory holds at most MaxFiles files of universe
InitOver(universe, pdfPages, starts) ==
    InitWith({fs \in SUBSET universe : Cardinality(fs) <= MaxFiles}, pdfPages, starts)

StartValues == {0, DefaultStart, 99999999}

Init == InitOver({FA, FB, FC, FD, FE, FN}, (1..MaxPages) \cup {LongPdfPages}, {DefaultStart})

\* the pipeline for other start values
InitStart == InitOver({FA, FC, FN}, 1..MaxPages, StartValues)

\* the pipeline on files that resolve their family in identify_document_family
InitFam == InitOver({FN, FM, FV, FD}, 1..MaxPages, {DefaultStart})

\* the pipeline on email files with a full and with an empty metadata mapping
InitMeta == InitOver({FG, FH, FN, FD}, 1..MaxPages, {DefaultStart})

\* Raw 'Creation-Date' values: a timestamp YYYY-MM-DDTHH:MM:SS, with or
\* without a fraction of a second, with or without the UTC marker, as a
\* string or as the first element of a list.
StampDates ==
    {<<"2", "0", "2", "0", "-", "0", "1", "-", "0", "2">>,
     <<"1", "9", "9", "9", "-", "1", "2", "-", "3", "1">>}

StampTimes ==
    {<<"0", "3", ":", "0", "4", ":", "0", "5">>, <<"2", "3", ":", "5", "9", ":", "5", "9">>}

StampFractions == {<<>>, <<".", "5">>, <<".", "1", "2", "3">>}

StampMarkers == {<<>>, <<"Z">>}

StampTexts ==
    {d \o <<"T">> \o t \o fr \o z :
        d \in StampDates, t \in StampTimes, fr \in StampFractions, z \in StampMarkers}

DateInputs == {PyStr(x) : x \in StampTexts} \cup {PyList(x) : x \in StampTexts}

\* the pipeline on an attachment whose metadata has such a 'Creation-Date'
InitDate ==
    /\ InitState({{FN, FD}}, 1..MaxPages, {DefaultStart},
                 {[f \in Universe |->
                      IF f = FN THEN [x \in {"Creation-Date"} |-> v] ELSE MetaOf(f)] :
                    v \in DateInputs})
    /\ loadfile_config = DefaultLoadfileConfig

\* loadfile settings: the defaults, a comma-and-quote format, a one-byte encoding
LoadfileConfigs ==
    {DefaultLoadfileConfig,
     [delimiter |-> CHR_X2C, wrapper |-> CHR_X22, encoding |-> "utf-8"],
     [delimiter |-> CHR_X14, wrapper |-> CHR_XFE, encoding |-> "latin-1"]}

\* the pipeline under each of these loadfile settings
InitCfg ==
    /\ InitState({{FN, FD}}, 1..MaxPages, {DefaultStart}, {[f \in Universe |-> MetaOf(f)]})
    /\ loadfile_config \in LoadfileConfigs

\* the pipeline on a directory of three files: an email, a TIFF, an attachment
InitTriple == InitWith({{FA, FD, FN}}, 1..MaxPages, {DefaultStart})

\* process_files, lines 448-631: collect and sort, group the email files,
\* pre-assign the Bates numbers, submit one task per file
Setup ==
    /\ pc = "start"
    /\ \E listing \in SortedListings(indir) :
       \E raised \in SUBSET {f \in indir : IsEmailFile(f)} :
       \E h \in [HashArgs(listing, raised) -> 0..MaxHash] :
          /\ all_files' = listing
          /\ email_families' = GroupEmailFiles(listing, raised, h)
          /\ bates_assignments' = PreAssign(listing, start_value)
          /\ files_with_families' = FilesWithFamilies(listing, email_families')
          /\ task' = [f \in indir |-> QueuedTask]
          /\ pc' = IF listing = <<>> THEN "shutdown" ELSE "collect"
    /\ UNCHANGED <<loadfile_config, batches, file_reviews, integrity, start_value, indir, meta, npages, max_workers, document_families, family_counter,
                   docs, opt_data, processed_count, failed_count, collected, deadline,
                   opt_src, doc_src, loadfile>>

(***************************************************************************)
(* process_single_file: one task per file, run by the pool's workers.      *)
(***************************************************************************)
Running == {f \in DOMAIN task : task[f].pc \notin {"queued", "done"}}

\* the pool starts the queued tasks in submission order
NextQueued(fname) ==
    /\ task[fname].pc = "queued"
    /\ \A i \in 1..(IndexOf(all_files, fname) - 1) : task[all_files[i]].pc # "queued"

family_id_of(fname) == files_with_families[IndexOf(all_files, fname)][2]

\* The ways the parse of a file can end.  ok: a parsed mapping with metadata
\* came back; raised: "no", "some" (a chunk of a PDF raised and was skipped)
\* or "all" (parser.from_file raised, the PDF could not be read, or no chunk
\* of the PDF gave metadata).
PdfChunks(n) == {c \in 0..(n - 1) : c % ParseChunkPages = 0}

ParseOutcomes(fname) ==
    IF IsPdf(fname)
    THEN LET chunks == PdfChunks(npages[fname])
         IN {[ok |-> FALSE, raised |-> "all"]}
            \cup {[ok |-> bad # chunks,
                   raised |-> IF bad = {} THEN "no" ELSE IF bad = chunks THEN "all" ELSE "some"] :
                  bad \in SUBSET chunks}
    ELSE {[ok |-> TRUE, raised |-> "no"], [ok |-> FALSE, raised |-> "all"]}

\* a failed parse that goes on to publish the record
Failed_published(t) == [t EXCEPT !.pc = "publish"]

Failed(t) == [t EXCEPT !.pc = "done", !.result = "failed"]

\* lines 532-602 once final_family_id is known: doc_entry is built, the
\* native file copied and the text written; a paginated file is then opened
\* for page expansion (PdfReader / Image.open), which may raise inside
\* _process_pdf_pages / _process_tiff_pages and end the expansion at once
Built(t, fname, opened) ==
    IF IsPaginated(fname) /\ opened
    THEN [t EXCEPT !.pc = "pages", !.page = 0, !.total = npages[fname]]
    ELSE [t EXCEPT !.pc = "publish"]

OpenOutcomes(fname) == IF IsPaginated(fname) THEN BOOLEAN ELSE {FALSE}

\* lines 483-530: look up the Bates number, parse, classify, and take the
\* family id of the email pass or enter identify_document_family
TaskStart(fname) ==
    /\ pc \in {"collect", "shutdown", "unwind"}
    /\ fname \in DOMAIN task
    /\ NextQueued(fname)
    /\ Cardinality(Running) < max_workers
    /\ \E out \in ParseOutcomes(fname), opened \in OpenOutcomes(fname) :
         LET t0 == [task[fname] EXCEPT
                       !.BegBates = get_bates_for_file(bates_assignments, start_value, fname),
                       !.xraised = out.raised]
             look == FamilyLookup(fname, ParsedMetadata(fname, meta[fname],
                                                        Get(npages, fname, 0)))
         IN task' = [task EXCEPT ![fname] =
               IF ~out.ok THEN Failed(t0)
               ELSE IF Truthy(family_id_of(fname))
                    THEN Built([t0 EXCEPT !.family = family_id_of(fname)], fname, opened)
               ELSE IF look.kind = "raise" THEN Failed(t0)
               ELSE IF look.kind = "none" THEN Built(t0, fname, opened)
               ELSE [t0 EXCEPT !.pc = "fam_check", !.key = look.key]]
    /\ UNCHANGED <<loadfile_config, batches, file_reviews, integrity, start_value, indir, meta, npages, max_workers, pc, all_files, email_families,
                   bates_assignments, files_with_families, document_families,
                   family_counter, docs, opt_data, processed_count, failed_count,
                   collected, deadline, opt_src, doc_src, loadfile>>

TaskVarsOnly ==
    UNCHANGED <<loadfile_config, batches, file_reviews, integrity, start_value, indir, meta, npages, max_workers, pc, all_files, email_families,
                bates_assignments, files_with_families, docs, opt_data,
                processed_count, failed_count, collected, deadline, opt_src, doc_src, loadfile>>

\* identify_document_family: if key not in self.document_families
FamCheck(fname) ==
    /\ fname \in DOMAIN task /\ task[fname].pc = "fam_check"
    /\ task' = [task EXCEPT ![fname].pc =
                   IF task[fname].key \in DOMAIN document_families
                   THEN "fam_return" ELSE "fam_store"]
    /\ UNCHANGED <<document_families, family_counter>>
    /\ TaskVarsOnly

\* self.document_families[key] = self.family_counter
FamStore(fname) ==
    /\ fname \in DOMAIN task /\ task[fname].pc = "fam_store"
    /\ document_families' =
          [k \in DOMAIN document_families \cup {task[fname].key} |->
              IF k = task[fname].key THEN family_counter ELSE document_families[k]]
    /\ task' = [task EXCEPT ![fname].pc = "fam_load"]
    /\ UNCHANGED family_counter
    /\ TaskVarsOnly

\* self.family_counter += 1: the load
FamLoad(fname) ==
    /\ fname \in DOMAIN task /\ task[fname].pc = "fam_load"
    /\ task' = [task EXCEPT ![fname].pc = "fam_inc", ![fname].tmp = family_counter]
    /\ UNCHANGED <<document_families, family_counter>>
    /\ TaskVarsOnly

\* self.family_counter += 1: the store
FamInc(fname) ==
    /\ fname \in DOMAIN task /\ task[fname].pc = "fam_inc"
    /\ family_counter' = task[fname].tmp + 1
    /\ task' = [task EXCEPT ![fname].pc = "fam_return", ![fname].tmp = 0]
    /\ UNCHANGED document_families
    /\ TaskVarsOnly

\* return self.document_families[key], and the task goes on to line 532
FamReturn(fname) ==
    /\ fname \in DOMAIN task /\ task[fname].pc = "fam_return"
    /\ \E opened \in OpenOutcomes(fname) :
         task' = [task EXCEPT ![fname] =
                     Built([@ EXCEPT !.family = PyInt(document_families[task[fname].key])],
                           fname, opened)]
    /\ UNCHANGED <<document_families, family_counter>>
    /\ TaskVarsOnly

\* one iteration of the page loop: self.opt_data.append(...) and the image write
PageAppend(fname) ==
    /\ fname \in DOMAIN task /\ task[fname].pc = "pages"
    /\ opt_data' = Append(opt_data,
                          PageEntry(task[fname].BegBates, task[fname].page, task[fname].total))
    /\ opt_src' = Append(opt_src, fname)
    /\ task' = [task EXCEPT ![fname].page = @ + 1,
                            ![fname].pc = IF task[fname].page + 1 = task[fname].total
                                          THEN "publish" ELSE "pages"]
    /\ UNCHANGED <<loadfile_config, batches, file_reviews, integrity, start_value, indir, meta, npages, max_workers, pc, all_files, email_families,
                   bates_assignments, files_with_families, document_families,
                   family_counter, docs, processed_count, failed_count, collected,
                   deadline, doc_src, loadfile>>

\* rendering the next pages or writing the image of the page just appended
\* raises: the except of _process_pdf_pages / _process_tiff_pages ends the
\* page loop
PageRaise(fname) ==
    /\ fname \in DOMAIN task /\ task[fname].pc = "pages"
    /\ task' = [task EXCEPT ![fname].pc = "publish"]
    /\ UNCHANGED <<document_families, family_counter>>
    /\ TaskVarsOnly

\* lines 604-610: with bates_lock: self.docs.append(doc_entry); return success
Publish(fname) ==
    /\ fname \in DOMAIN task /\ task[fname].pc = "publish"
    /\ docs' = Append(docs,
                      DocEntry(fname,
                               ParsedMetadata(fname, meta[fname], Get(npages, fname, 0)),
                               task[fname].BegBates, task[fname].family))
    /\ doc_src' = Append(doc_src, fname)
    /\ task' = [task EXCEPT ![fname].pc = "done", ![fname].result = "success"]
    /\ UNCHANGED <<loadfile_config, batches, file_reviews, integrity, start_value, indir, meta, npages, max_workers, pc, all_files, email_families,
                   bates_assignments, files_with_families, document_families,
                   family_counter, opt_data, processed_count, failed_count, collected,
                   deadline, opt_src, loadfile>>

(***************************************************************************)
(* process_files: the as_completed loop, the pool's shutdown, the summary. *)
(***************************************************************************)
MainVarsOnly ==
    UNCHANGED <<loadfile_config, batches, file_reviews, integrity, start_value, indir, meta, npages, max_workers, all_files, email_families,
                bates_assignments, files_with_families, task, document_families,
                family_counter, docs, opt_data, opt_src, doc_src, loadfile>>

\* one iteration of the loop: a finished future is yielded and counted, then
\* the total timeout is checked (late: max_total_timeout seconds have passed
\* since start_time)
Collect(fname) ==
    /\ pc = "collect"
    /\ fname \in DOMAIN task /\ task[fname].pc = "done" /\ fname \notin collected
    /\ collected' = collected \cup {fname}
    /\ IF task[fname].result = "success"
       THEN processed_count' = processed_count + 1 /\ UNCHANGED failed_count
       ELSE failed_count' = failed_count + 1 /\ UNCHANGED processed_count
    /\ \E late \in BOOLEAN :
         /\ deadline' = late
         /\ pc' = IF late \/ collected' = DOMAIN task THEN "shutdown" ELSE "collect"
    /\ MainVarsOnly

\* as_completed(..., timeout=max_total_timeout) raises TimeoutError when the
\* time is up while it waits for a future that has not finished
AsCompletedTimeout ==
    /\ pc = "collect"
    /\ \A f \in DOMAIN task : task[f].pc = "done" => f \in collected
    /\ deadline' = TRUE
    /\ pc' = "unwind"
    /\ UNCHANGED <<processed_count, failed_count, collected>>
    /\ MainVarsOnly

AllTasksDone == \A f \in DOMAIN task : task[f].pc = "done"

\* leaving the with block waits for every task (shutdown(wait=True)); then the
\* summary is printed, which divides by len(all_files), or the TimeoutError
\* of as_completed propagates to the caller
Finish ==
    /\ pc \in {"shutdown", "unwind"}
    /\ AllTasksDone
    /\ pc' = IF pc = "unwind" THEN "TimeoutError"
             ELSE IF Len(all_files) = 0 THEN "ZeroDivisionError"
             ELSE "returned"
    /\ UNCHANGED <<processed_count, failed_count, collected, deadline>>
    /\ MainVarsOnly

\* main: creator.write_loadfile after process_files returned
write_loadfile ==
    /\ pc = "returned"
    /\ loadfile' = LoadfileText(docs)
    /\ pc' = "written"
    /\ UNCHANGED <<loadfile_config, batches, file_reviews, integrity, start_value, indir, meta, npages, max_workers, all_files, email_families,
                   bates_assignments, files_with_families, task, document_families,
                   family_counter, docs, opt_data, processed_count, failed_count,
                   collected, deadline, opt_src, doc_src>>

(***************************************************************************)
(* The output paths the tasks write (relative to the output directory).    *)
(***************************************************************************)
\* the task has copied the native file and written the text file
HasCopied(fname) ==
    task[fname].pc \in {"pages", "publish"} \/ task[fname].result = "success"

\* The page images the task has written for certain: cv2.imwrite follows the
\* append of the page's entry, to the path of the entry, and the loop has
\* gone on to a further page of the file.
ImagesWritten(fname) ==
    {opt_data[i].path : i \in {j \in 1..Len(opt_data) :
                                 /\ opt_src[j] = fname
                                 /\ \E k \in (j + 1)..Len(opt_data) : opt_src[k] = fname}}

PathsWritten(fname) ==
    (IF HasCopied(fname)
     THEN {NativeLocation(fname, task[fname].BegBates), TextLocation(task[fname].BegBates)}
     ELSE {}) \cup ImagesWritten(fname)

(***************************************************************************)
(* run_data_integrity_tests, Test 2: the required fields.                  *)
(***************************************************************************)
required_fields ==
    {"BegBates", "EndBates", "HashValue", "Filename", "FileExtension",
     "NativeLocation", "TextLocation"}

\* missing_fields: field not in doc or doc[field] is None
MissingFields(ds) ==
    {<<i, f>> \in (1..Len(ds)) \X required_fields :
        f \notin DOMAIN ds[i] \/ ds[i][f] = PyNone}

(***************************************************************************)
(* run_data_integrity_tests, Test 6: the date format check.                *)
(***************************************************************************)
date_fields == {"DateCreated", "DateLastModified", "DateSent", "DateReceived"}

AllDigits(s) == \A i \in 1..Len(s) : IsDigit(s[i])

\* re.match(r'^\d{1,2}/\d{1,2}/\d{4}$', s): $ also matches before a final newline
MatchesDate(s) ==
    LET t == IF s # <<>> /\ s[Len(s)] = newline THEN SubSeq(s, 1, Len(s) - 1) ELSE s
    IN \E a \in 1..2, b \in 1..2 :
          /\ Len(t) = a + b + 6
          /\ AllDigits(SubSeq(t, 1, a)) /\ t[a + 1] = "/"
          /\ AllDigits(SubSeq(t, a + 2, a + b + 1)) /\ t[a + b + 2] = "/"
          /\ AllDigits(SubSeq(t, a + b + 3, a + b + 6))

\* invalid_dates: the (record, field) pairs whose value is set and does not match
InvalidDates(ds) ==
    {<<i, f>> \in (1..Len(ds)) \X date_fields :
        LET v == Get(ds[i], f, PyNone) IN Truthy(v) /\ ~MatchesDate(Str(v))}

(***************************************************************************)
(* run_data_integrity_tests: the six checks, each printed as PASS or FAIL. *)
(***************************************************************************)
MaxRuns == 2

PassFail(ok) == IF ok THEN "PASS" ELSE "FAIL"

\* Test 1: len(bates_numbers) == len(set(bates_numbers))
UniqueBates(ds) ==
    Cardinality({ds[i]["BegBates"] : i \in 1..Len(ds)}) = Len(ds)

\* Test 3: the native and the text path of every record exist
MissingFiles(ds) ==
    LET existing == UNION {PathsWritten(f) : f \in DOMAIN task}
    IN {<<i, f>> \in (1..Len(ds)) \X {"NativeLocation", "TextLocation"} :
           ds[i][f].s \notin existing}

\* Test 4: the first line of loadfile.dat holds the delimiter and the wrapper
\* open(loadfile_path, 'r', encoding='utf-8') reads what was written in
\* encoding without UnicodeDecodeError: the byte 0xFE of a one-byte encoding
\* is not valid UTF-8
DecodesAsUtf8(text, encoding) ==
    encoding = "utf-8" \/ \A i \in 1..Len(text) : text[i] # CHR_XFE

LoadfileFormatOk(text, encoding) ==
    LET i == FindChar(text, newline)
        header == IF i = 0 THEN text ELSE SubSeq(text, 1, i)
    IN /\ DecodesAsUtf8(text, encoding)
       /\ Contains(header, <<CHR_X14>>) /\ Contains(header, <<CHR_XFE>>)

\* Test 5: the non-empty family ids are pairwise different, or there is none
FamiliesConsistent(ds) ==
    LET idx == {i \in 1..Len(ds) : Truthy(ds[i]["FamilyID"])}
    IN Cardinality({ds[i]["FamilyID"] : i \in idx}) = Cardinality(idx)

IntegrityResults ==
    <<PassFail(UniqueBates(docs)),
      PassFail(MissingFields(docs) = {}),
      PassFail(MissingFiles(docs) = {}),
      PassFail(LoadfileFormatOk(loadfile, loadfile_config.encoding)),
      PassFail(FamiliesConsistent(docs)),
      PassFail(InvalidDates(docs) = {})>>

\* a validator that consumes the record list
run_data_integrity_tests_clearing ==
    /\ pc = "written"
    /\ Len(integrity) < MaxRuns
    /\ integrity' = Append(integrity, IntegrityResults)
    /\ docs' = <<>>
    /\ UNCHANGED <<loadfile_config, batches, file_reviews, start_value, indir, meta, npages, max_workers, pc, all_files,
                   email_families, bates_assignments, files_with_families, task,
                   document_families, family_counter, opt_data, processed_count,
                   failed_count, collected, deadline, opt_src, doc_src, loadfile>>

\* main: creator.run_data_integrity_tests, on the written output
run_data_integrity_tests ==
    /\ pc = "written"
    /\ Len(integrity) < MaxRuns
    /\ integrity' = Append(integrity, IntegrityResults)
    /\ UNCHANGED <<loadfile_config, batches, file_reviews, start_value, indir, meta, npages, max_workers, pc, all_files,
                   email_families, bates_assignments, files_with_families, task,
                   document_families, family_counter, docs, opt_data, processed_count,
                   failed_count, collected, deadline, opt_src, doc_src, loadfile>>

Next ==
    \/ Setup
    \/ \E f \in Universe : TaskStart(f)
    \/ \E f \in Universe : FamCheck(f)
    \/ \E f \in Universe : FamStore(f)
    \/ \E f \in Universe : FamLoad(f)
    \/ \E f \in Universe : FamInc(f)
    \/ \E f \in Universe : FamReturn(f)
    \/ \E f \in Universe : PageAppend(f)
    \/ \E f \in Universe : PageRaise(f)
    \/ \E f \in Universe : Publish(f)
    \/ \E f \in Universe : Collect(f)
    \/ AsCompletedTimeout
    \/ Finish
    \/ write_loadfile
    \/ run_data_integrity_tests

Spec == Init /\ [][Next]_vars

SpecStart == InitStart /\ [][Next]_vars

SpecFam == InitFam /\ [][Next]_vars

SpecTriple == InitTriple /\ [][Next]_vars

SpecMeta == InitMeta /\ [][Next]_vars

SpecDate == InitDate /\ [][Next]_vars

SpecCfg == InitCfg /\ [][Next]_vars

(***************************************************************************)
(* write_loadfile on its own: self.docs holds any records a caller put     *)
(* there (values that are strings, None, or keys that are missing).        *)
(***************************************************************************)
MaxRecords == 2

SerCols == {"BegBates", "Title"}

SerValues ==
    {PyNone, EmptyStr, PyStr(<<"a">>), PyStr(<<CHR_X14>>), PyStr(<<CHR_XFE>>), PyStr(<<newline>>)}

SerRecords == UNION {[ks -> SerValues] : ks \in SUBSET SerCols}

InitSer ==
    /\ loadfile_config = DefaultLoadfileConfig
    /\ docs \in UNION {[1..n -> SerRecords] : n \in 0..MaxRecords}
    /\ pc = "returned"
    /\ start_value = DefaultStart
    /\ indir = {}
    /\ meta = <<>>
    /\ npages = <<>>
    /\ max_workers = 1
    /\ all_files = <<>>
    /\ email_families = <<>>
    /\ bates_assignments = <<>>
    /\ files_with_families = <<>>
    /\ task = <<>>
    /\ document_families = <<>>
    /\ family_counter = 1
    /\ opt_data = <<>>
    /\ processed_count = 0
    /\ failed_count = 0
    /\ collected = {}
    /\ deadline = FALSE
    /\ opt_src = <<>>
    /\ doc_src = <<>>
    /\ loadfile = <<>>
    /\ integrity = <<>>
    /\ batches = <<>>
    /\ file_reviews = <<>>

NextSer == write_loadfile

SpecSer == InitSer /\ [][NextSer]_vars

(***************************************************************************)
(* ReviewWorkflow: review batches and the review of their files.           *)
(***************************************************************************)
MaxBatches == 2
MaxBatchFiles == 2
MaxReviews == 3

review_data_dir == "review_data"

\* the variables of the loadfile pipeline
pipelineVars ==
    <<loadfile_config, integrity, start_value, indir, meta, npages, max_workers, pc, all_files,
      email_families, bates_assignments, files_with_families, task, document_families,
      family_counter, docs, opt_data, processed_count, failed_count, collected,
      deadline, opt_src, doc_src, loadfile>>

\* uuid4: an identifier no batch has yet
BatchNames == <<"b1", "b2", "b3", "b4">>

BatchIds == {BatchNames[i] : i \in 1..MaxBatches}

\* the names of the files given to create_review_batch
FileNames == <<"f1", "f2", "f3", "f4">>

\* uuid4: the identifier of the k-th file review created for batch b
FileId(b, k) == <<b, FileNames[k]>>

FileIds == {FileId(b, k) : b \in BatchIds, k \in 1..MaxBatchFiles}

\* the first path part that follows a part "batches"; None when there is none
get_batch_id_from_file_path(file_path) ==
    LET hits == {i \in 1..Len(file_path) : file_path[i] = "batches" /\ i + 1 <= Len(file_path)}
    IN IF hits = {} THEN "None"
       ELSE file_path[(CHOOSE i \in hits : \A j \in hits : i <= j) + 1]

\* the FileReview _create_file_review stores for the k-th copied file
FileReview(b, k) ==
    [filepath |-> <<review_data_dir, "batches", b, FileNames[k]>>, review_status |-> "pending"]

\* the ReviewBatch create_review_batch stores for n copied files
ReviewBatch(n) ==
    [total_files |-> n, pending_files |-> n, approved_files |-> 0, rejected_files |-> 0,
     batch_status |-> "active"]

create_review_batch(n) ==
    /\ Cardinality(DOMAIN batches) < MaxBatches
    /\ LET batch_id == BatchNames[Cardinality(DOMAIN batches) + 1]
           created == {FileId(batch_id, k) : k \in 1..n}
       IN /\ file_reviews' = [id \in DOMAIN file_reviews \cup created |->
                                 IF id \in created
                                 THEN FileReview(batch_id, CHOOSE k \in 1..n : FileId(batch_id, k) = id)
                                 ELSE file_reviews[id]]
          /\ batches' = [b \in DOMAIN batches \cup {batch_id} |->
                            IF b = batch_id THEN ReviewBatch(n) ELSE batches[b]]
    /\ UNCHANGED pipelineVars

\* the reviews of a batch so far, as its counters have them
Reviewed(b) == batches[b].approved_files + batches[b].rejected_files

approve_file(file_id) ==
    /\ IF file_id \notin DOMAIN file_reviews
       THEN UNCHANGED <<batches, file_reviews>>
       ELSE LET batch_id == get_batch_id_from_file_path(file_reviews[file_id].filepath)
            IN /\ batch_id \in DOMAIN batches => Reviewed(batch_id) < MaxReviews
               /\ file_reviews' = [file_reviews EXCEPT ![file_id].review_status = "approved"]
               /\ batches' =
                     IF batch_id \in DOMAIN batches
                     THEN [batches EXCEPT ![batch_id] =
                             [@ EXCEPT !.pending_files = @ - 1,
                                       !.approved_files = @ + 1,
                                       !.batch_status =
                                           IF batches[batch_id].pending_files - 1 = 0
                                           THEN "completed" ELSE @]]
                     ELSE batches
    /\ UNCHANGED pipelineVars

reject_file(file_id) ==
    /\ IF file_id \notin DOMAIN file_reviews
       THEN UNCHANGED <<batches, file_reviews>>
       ELSE LET batch_id == get_batch_id_from_file_path(file_reviews[file_id].filepath)
            IN /\ batch_id \in DOMAIN batches => Reviewed(batch_id) < MaxReviews
               /\ file_reviews' = [file_reviews EXCEPT ![file_id].review_status = "rejected"]
               /\ batches' =
                     IF batch_id \in DOMAIN batches
                     THEN [batches EXCEPT ![batch_id] =
                             [@ EXCEPT !.pending_files = @ - 1,
                                       !.rejected_files = @ + 1]]
                     ELSE batches
    /\ UNCHANGED pipelineVars

\* a ReviewWorkflow on an empty review_data directory
InitReview ==
    /\ loadfile_config = DefaultLoadfileConfig
    /\ batches = <<>>
    /\ file_reviews = <<>>
    /\ pc = "review"
    /\ start_value = DefaultStart
    /\ indir = {}
    /\ meta = <<>>
    /\ npages = <<>>
    /\ max_workers = 1
    /\ all_files = <<>>
    /\ email_families = <<>>
    /\ bates_assignments = <<>>
    /\ files_with_families = <<>>
    /\ task = <<>>
    /\ document_families = <<>>
    /\ family_counter = 1
    /\ docs = <<>>
    /\ opt_data = <<>>
    /\ processed_count = 0
    /\ failed_count = 0
    /\ collected = {}
    /\ deadline = FALSE
    /\ opt_src = <<>>
    /\ doc_src = <<>>
    /\ loadfile = <<>>
    /\ integrity = <<>>

NextReview ==
    \/ \E n \in 1..MaxBatchFiles : create_review_batch(n)
    \/ \E id \in FileIds : approve_file(id)
    \/ \E id \in FileIds : reject_file(id)

SpecReview == InitReview /\ [][NextReview]_vars

(***************************************************************************)
(* Properties of the Bates numbering.                                      *)
(***************************************************************************)
\* the number of input files that sort strictly before fname
RankOf(fname) == Cardinality({g \in indir : LexLess(SortKey(g), SortKey(fname))})

\* C1: once process_files has pre-assigned the Bates numbers, the mapping is
\* defined on every file of the sorted list and on nothing else, it is
\* injective, the file at 0-based position i has numeric suffix
\* start_value + i, and the set of suffixes is start_value .. start_value + N - 1.
C1_PreAssignment ==
    pc # "start" =>
      /\ DOMAIN bates_assignments = Range(all_files)
      /\ \A f, g \in DOMAIN bates_assignments :
            f # g => bates_assignments[f] # bates_assignments[g]
      /\ \A i \in 1..Len(all_files) :
            /\ BatesSuffix(bates_assignments[all_files[i]]) = start_value + (i - 1)
            /\ StartsAt(bates_assignments[all_files[i]], 1, prefix)
      /\ {BatesSuffix(bates_assignments[f]) : f \in DOMAIN bates_assignments}
            = start_value..(start_value + Len(all_files) - 1)

\* two files are numbered, from a start value whose successor needs a ninth digit
C1_Witness ==
    /\ pc # "start"
    /\ Len(all_files) = MaxFiles
    /\ start_value = 99999999

\* C2: the BegBates of every published record is a function of the input
\* alone (the file set, the prefix and the start value): the Bates number of
\* start_value plus the rank of the file in the sort order, whatever the
\* number of workers and the order in which the tasks start and publish.
C2_SchedulingIndependence ==
    \A i \in 1..Len(docs) :
       docs[i]["BegBates"] = PyStr(get_bates(prefix, start_value + RankOf(doc_src[i])))

\* two workers, and the records are published in the reverse of the sort order
C2_Witness ==
    /\ max_workers = 2
    /\ Len(docs) = 2
    /\ IndexOf(all_files, doc_src[1]) > IndexOf(all_files, doc_src[2])

\* C3: no page entry of a file carries the Bates number pre-assigned to a
\* different input file.
C3_NoPageCollision ==
    \A i \in 1..Len(opt_data) :
       \A g \in DOMAIN bates_assignments :
          g # opt_src[i] => opt_data[i].bates # bates_assignments[g]

(***************************************************************************)
(* Properties of identify_document_family under concurrency.               *)
(***************************************************************************)
\* the tasks to which identify_document_family has returned an id
Resolved == {f \in DOMAIN task : task[f].family.t = "int"}

\* C4: the tasks that resolved the same family key hold the same family id,
\* and the tasks that resolved different keys hold different ids.
C4_AtomicGetOrCreate ==
    \A f, g \in Resolved :
       (task[f].key = task[g].key) <=> (task[f].family = task[g].family)

(***************************************************************************)
(* Properties of the error handling of the tasks.                          *)
(***************************************************************************)
Occurrences(fname) == Cardinality({i \in 1..Len(doc_src) : doc_src[i] = fname})

\* the extraction collaborator gave no parse result for the file
NoParse == {f \in DOMAIN task : task[f].xraised = "all"}

ProcessFilesOver == pc \in {"returned", "written", "TimeoutError"}

\* what a reader of loadfile.dat sees: text.split(sep), and the lines of a text
RECURSIVE SplitOn(_, _)
SplitOn(s, sep) ==
    LET i == FindChar(s, sep)
    IN IF i = 0 THEN <<s>>
       ELSE <<SubSeq(s, 1, i - 1)>> \o SplitOn(SubSeq(s, i + 1, Len(s)), sep)

RowsOf(text) ==
    LET parts == SplitOn(text, newline)
    IN IF parts[Len(parts)] = <<>> THEN SubSeq(parts, 1, Len(parts) - 1) ELSE parts

Enclosed(field) == Len(field) >= 2 /\ field[1] = wrap /\ field[Len(field)] = wrap

\* a field without its wrapper
Unwrap(field) == IF Enclosed(field) THEN SubSeq(field, 2, Len(field) - 1) ELSE field

\* the text a value of a record is read back as
WrittenAs(doc, c) ==
    LET v == Get(doc, c, EmptyStr) IN IF v.t = "None" THEN <<>> ELSE Str(v)

\* the loadfile has a header line and one line per record, every line has
\* exactly n wrapper-enclosed fields joined by the delimiter, the header
\* names the columns and every data line holds the record's values in the
\* order of the columns
LoadfileShape(n) ==
    LET rows == RowsOf(loadfile)
    IN /\ Len(rows) = 1 + Len(docs)
       /\ \A r \in 1..Len(rows) :
             LET fields == SplitOn(rows[r], delim)
             IN /\ Len(fields) = n
                /\ \A j \in 1..Len(fields) : Enclosed(fields[j])
                /\ \A j \in 1..Len(cols) :
                      j <= Len(fields) =>
                        Unwrap(fields[j]) = IF r = 1 THEN <<cols[j]>>
                                            ELSE WrittenAs(docs[r - 1], cols[j])

\* C6 (as the code has it): the loadfile of a run is one header line and one
\* line per published record, each of exactly 39 wrapper-enclosed fields
\* joined by the delimiter, in the order of the column list.
C6_ThirtyNineColumns == pc = "written" => LoadfileShape(39)

\* a loadfile with two data lines has been written
C6_Witness == pc = "written" /\ Len(docs) = 2 /\ Len(RowsOf(loadfile)) = 3

\* C6 as stated: every line has exactly 40 fields.
C6_FortyColumns == pc = "written" => LoadfileShape(40)

\* C7: for records whose values are any strings, None or missing, the lines
\* written, split on the delimiter and unwrapped, give one line per record
\* with as many fields as columns, equal to the record's values in order.
C7_RoundTrip ==
    pc = "written" =>
       LET rows == RowsOf(loadfile)
       IN /\ Len(rows) = 1 + Len(docs)
          /\ \A i \in 1..Len(docs) :
                i + 1 <= Len(rows) =>
                  LET fields == SplitOn(rows[i + 1], delim)
                  IN /\ Len(fields) = Len(cols)
                     /\ \A j \in 1..Len(cols) :
                           j <= Len(fields) => Unwrap(fields[j]) = WrittenAs(docs[i], cols[j])

(***************************************************************************)
(* Properties of the page expansion.                                       *)
(***************************************************************************)
\* the page entries of a file, in the order of self.opt_data
RECURSIVE EntriesFrom(_, _)
EntriesFrom(fname, i) ==
    IF i > Len(opt_data) THEN <<>>
    ELSE (IF opt_src[i] = fname THEN <<opt_data[i]>> ELSE <<>>) \o EntriesFrom(fname, i + 1)

\* the page loop of the file ran to its end
Expanded(fname) ==
    /\ task[fname].pc \in {"publish", "done"}
    /\ task[fname].total > 0
    /\ task[fname].page = task[fname].total

\* C8: the page entries of a paginated file with P pages whose page loop ran
\* to its end are P entries, in page order, page k (from 0) with the Bates
\* number of the base suffix plus k under the same prefix and padding; the
\* first has the flag Y and the page count P, the others have both blank.
C8_PageExpansion ==
    \A f \in DOMAIN task :
       Expanded(f) =>
          LET es == EntriesFrom(f, 1)
              b == start_value + RankOf(f)
              P == npages[f]
          IN /\ Len(es) = P
             /\ \A k \in 0..(P - 1) :
                   /\ es[k + 1].bates = prefix \o ZeroPad(Digits(b + k), ndigit)
                   /\ es[k + 1].first_page = (IF k = 0 THEN PyStr(<<"Y">>) ELSE EmptyStr)
                   /\ es[k + 1].npages = (IF k = 0 THEN PyInt(P) ELSE EmptyStr)

\* an 11-page PDF was expanded while the pages of another file were appended
\* in between
C8_Witness ==
    \E f \in DOMAIN task :
       /\ Expanded(f) /\ npages[f] = LongPdfPages
       /\ \E i, j, k \in 1..Len(opt_src) :
             i < j /\ j < k /\ opt_src[i] = f /\ opt_src[j] # f /\ opt_src[k] = f

(***************************************************************************)
(* Properties of the email family pass.                                    *)
(***************************************************************************)
Emails == {f \in Range(all_files) : IsEmailFile(f)}

ThreadIndexOf(fname) == Get(meta[fname], "Thread-Index", PyNone)

\* the families that list the file
FamiliesOf(fname) == {k \in DOMAIN email_families : fname \in Range(email_families[k])}

\* C9: two email files with identical thread-index values (a string or a
\* list of strings) have the same family id, and two email files whose
\* thread-index, subject and sender all differ have different family ids.
C9_FamilyInvariant ==
    pc # "start" =>
       \A f, g \in Emails :
          /\ (ThreadIndexOf(f) # PyNone /\ ThreadIndexOf(f) = ThreadIndexOf(g))
                => family_id_of(f) = family_id_of(g)
          /\ (/\ ThreadIndexOf(f) # ThreadIndexOf(g)
              /\ Get(meta[f], "Subject", PyNone) # Get(meta[g], "Subject", PyNone)
              /\ Get(meta[f], "From", PyNone) # Get(meta[g], "From", PyNone))
                => family_id_of(f) # family_id_of(g)

\* C10: after the email pass every email file is listed by exactly one
\* family, once, and no other file is listed; a file whose analysis raised
\* is keyed by the hash of its base name; the family id a task of an email
\* file is dispatched with is that family's key, a non-empty string, and
\* the task works with it.
C10_EveryEmailInOneFamily ==
    pc # "start" =>
       /\ \A f \in Emails :
             /\ Cardinality(FamiliesOf(f)) = 1
             /\ \A k \in FamiliesOf(f) :
                   /\ Cardinality({i \in 1..Len(email_families[k]) :
                                      email_families[k][i] = f}) = 1
                   /\ family_id_of(f) = PyStr(k)
                   /\ k \in {FamilyToken(EmailHashArg(f, meta[f], r).kind, n) :
                                r \in BOOLEAN, n \in 0..MaxHash}
             /\ EmailHashArg(f, meta[f], TRUE) = [kind |-> "EMAIL_FILE_", arg |-> basename(f)]
             /\ family_id_of(f).t = "str" /\ family_id_of(f).s # <<>>
             /\ task[f].pc \in {"pages", "publish"} \/ task[f].result = "success"
                   => task[f].family = family_id_of(f)
       /\ \A f \in Range(all_files) \ Emails : FamiliesOf(f) = {}

\* the analysis of a.msg raised in the email pass (its thread-index is a
\* string, so only then is it keyed by its file name), and its task has
\* published with that family id
C10_Witness ==
    /\ pc # "start"
    /\ FA \in Emails
    /\ Head(family_id_of(FA).s) = "EMAIL_FILE_"
    /\ task[FA].result = "success"
    /\ task[FA].family = family_id_of(FA)

(***************************************************************************)
(* validate_bates_and_pages.validate_bates_sequence on a loadfile text.    *)
(***************************************************************************)
\* s[-n:]
LastN(s, n) == IF Len(s) <= n THEN s ELSE SubSeq(s, Len(s) - n + 1, Len(s))

\* line.strip() is empty
IsBlank(line) == \A i \in 1..Len(line) : line[i] \in {" ", newline}

\* bates_numbers: parts[1] of every non-blank data line that splits on the
\* wrapper character into more than 5 parts
BatesNumbersOf(text) ==
    LET rows == RowsOf(text)
        data == SelectSeq(SubSeq(rows, 2, Len(rows)), LAMBDA line : ~IsBlank(line))
        counted == SelectSeq(data, LAMBDA line : Len(SplitOn(line, CHR_XFE)) > 5)
    IN [i \in 1..Len(counted) |-> SplitOn(counted[i], CHR_XFE)[2]]

\* bates_nums before the sort: int(bates[-8:])
BatesNumsOf(text) ==
    LET bs == BatesNumbersOf(text) IN [i \in 1..Len(bs) |-> ParseInt(LastN(bs[i], ndigit))]

\* nums.sort()
SortedNums(nums) ==
    CHOOSE srt \in [1..Len(nums) -> Range(nums)] :
       /\ \A v \in Range(nums) :
             Cardinality({i \in 1..Len(nums) : srt[i] = v})
               = Cardinality({i \in 1..Len(nums) : nums[i] = v})
       /\ \A i \in 1..(Len(nums) - 1) : srt[i] <= srt[i + 1]

\* the value validate_bates_sequence returns, or "ValueError" when int() raises
validate_bates_sequence(text) ==
    LET nums == BatesNumsOf(text)
    IN IF \E i \in 1..Len(nums) : nums[i] = Invalid THEN "ValueError"
       ELSE LET srt == SortedNums(nums)
            IN IF \A i \in 1..(Len(srt) - 1) : srt[i + 1] = srt[i] + 1
               THEN "True" ELSE "False"

\* C11: after a run, the numeric suffixes of the BegBates values of the
\* loadfile rows, sorted ascending, are consecutive integers without gap or
\* duplicate, and validate_bates_sequence says so.
C11_GaplessOutput ==
    pc = "written" =>
       /\ validate_bates_sequence(loadfile) = "True"
       /\ LET nums == [i \in 1..Len(docs) |-> BatesSuffix(docs[i]["BegBates"].s)]
          IN \A i \in 1..Len(nums) :
                /\ \A j \in 1..Len(nums) : nums[j] = nums[i] => j = i
                /\ \/ \A j \in 1..Len(nums) : nums[j] <= nums[i]
                   \/ \E j \in 1..Len(nums) : nums[j] = nums[i] + 1

(***************************************************************************)
(* Properties of the result collection of process_files.                   *)
(***************************************************************************)
\* C12: when process_files has returned, processed_count + failed_count is
\* the number of input files, processed_count is the number of tasks that
\* returned success and failed_count the number of tasks that did not.
C12_TallyAccountsForEveryFile ==
    pc \in {"returned", "written"} =>
       /\ processed_count + failed_count = Len(all_files)
       /\ processed_count = Cardinality({f \in DOMAIN task : task[f].result = "success"})
       /\ failed_count = Cardinality({f \in DOMAIN task : task[f].result = "failed"})

\* C13: when max_total_timeout is exceeded while the results are collected,
\* process_files still ends by returning: no exception reaches the caller.
C13_TimeoutReturnsTally == deadline => pc # "TimeoutError"

\* C14: no output path is written by the tasks of two different files.
C14_ExclusiveOutputPaths ==
    \A f, g \in DOMAIN task : f # g => PathsWritten(f) \cap PathsWritten(g) = {}

\* C15: every date field of every record the pipeline has built is None,
\* empty or of the form MM/DD/YYYY, so the date format check finds nothing.
C15_CanonicalDates ==
    /\ InvalidDates(docs) = {}
    /\ \A i \in 1..Len(docs) : \A f \in date_fields :
          \/ docs[i][f] \in {PyNone, EmptyStr}
          \/ docs[i][f].t = "str" /\ MatchesDate(docs[i][f].s)

\* C16: every record of the shared record list has each of the seven required
\* keys, with a value that is not None.
C16_RequiredFields ==
    /\ MissingFields(docs) = {}
    /\ \A i \in 1..Len(docs) : \A f \in required_fields :
          f \in DOMAIN docs[i] /\ docs[i][f].t # "None"

\* two tasks of a run have published their records
C16_Witness == pc = "written" /\ Len(docs) = MaxFiles

\* C17: a run of run_data_integrity_tests leaves the record list, the page
\* entries and the loadfile as they are, and prints for each of the six
\* checks the result the run before it printed.
C17_ValidatorIdempotent ==
    [][integrity' # integrity =>
          /\ UNCHANGED <<docs, opt_data, loadfile, task>>
          /\ Len(integrity') = Len(integrity) + 1
          /\ integrity # <<>> => integrity'[Len(integrity')] = integrity[Len(integrity)]]_vars

\* the validator has run twice on an output with records, and a check failed
C17_Witness ==
    /\ Len(integrity) = MaxRuns
    /\ docs # <<>>
    /\ \E k \in 1..6 : integrity[MaxRuns][k] = "FAIL"

\* the file reviews of batch b whose review_status is status
ReviewsWith(b, status) ==
    {id \in DOMAIN file_reviews :
        /\ get_batch_id_from_file_path(file_reviews[id].filepath) = b
        /\ file_reviews[id].review_status = status}

\* C18: the approved, rejected and pending counters of every batch are the
\* numbers of its file reviews with that status, and pending_files is never
\* negative, whatever approve_file and reject_file calls were made.
C18_CountersMatchStatuses ==
    \A b \in DOMAIN batches :
        /\ batches[b].approved_files = Cardinality(ReviewsWith(b, "approved"))
        /\ batches[b].rejected_files = Cardinality(ReviewsWith(b, "rejected"))
        /\ batches[b].pending_files = Cardinality(ReviewsWith(b, "pending"))
        /\ batches[b].pending_files >= 0

(***************************************************************************)
(* _process_pdf_pages: the chunks of the page loop.                        *)
(***************************************************************************)
\* processing_config.get('pdf_chunk_size', 5)
pdf_chunk_size == 5

\* the index of the chunk page_num is rendered in: range(0, total_pages, chunk_size)
ChunkOf(page_num) == page_num \div pdf_chunk_size

\* the page loop of the task is over
PagesOver(fname) == task[fname].pc = "publish" \/ task[fname].result = "success"

\* the task has appended the entry of page page_num of its file
HasPageEntry(fname, page_num) ==
    \E j \in 1..Len(opt_data) :
        /\ opt_src[j] = fname
        /\ opt_data[j].bates = PageBates(task[fname].BegBates, page_num)

\* C19: when the page loop of a PDF is over and the rendering of a chunk was
\* not followed by an entry (the loop stopped at the first page of the
\* chunk), every page of every later chunk of the file has its entry.
C19_LaterChunksExpanded ==
    \A f \in DOMAIN task :
        (/\ IsPdf(f) /\ PagesOver(f)
         /\ task[f].page < task[f].total
         /\ task[f].page % pdf_chunk_size = 0)
        => \A p \in 0..(task[f].total - 1) :
              ChunkOf(p) > ChunkOf(task[f].page) => HasPageEntry(f, p)

\* a signal of the metadata is available: present and not empty
Available(metadata, signal) == Truthy(Get(metadata, signal, EmptyStr))

\* the kind of key the first available signal gives, in the order
\* thread-index, message-id, subject, sender address, filename
FirstSignalKind(metadata) ==
    IF Available(metadata, "Thread-Index") \/ Available(metadata, "Message-ID")
    THEN "EMAIL_THREAD_"
    ELSE IF Available(metadata, "Subject") THEN "EMAIL_SUBJECT_"
    ELSE IF Available(metadata, "From") THEN "EMAIL_FROM_"
    ELSE "EMAIL_FILE_"

\* the kind of the key _group_email_files has listed the file under
ListedKind(fname) == FamilyIdOf(email_families, fname).s[1]

\* C20: once the email pass is over, every email file is listed under a key
\* of its first available signal in the order thread-index, message-id,
\* subject, sender address, filename (or under a key of its filename, as a
\* file whose analysis raised is).
C20_FamilyKeyPriority ==
    pc # "start" =>
       \A f \in indir :
           IsEmailFile(f) => ListedKind(f) \in {FirstSignalKind(meta[f]), "EMAIL_FILE_"}

\* C21: in the page-entry list the entries of one file are a single run, in
\* page order, that begins with the file's first-page entry: no entry of
\* another file lies between two entries of a file.
C21_ContiguousPageRuns ==
    \A j, k \in 1..Len(opt_data) :
        (j < k /\ opt_src[j] = opt_src[k]) =>
            /\ \A i \in j..k : opt_src[i] = opt_src[j]
            /\ BatesSuffix(opt_data[j].bates) < BatesSuffix(opt_data[k].bates)
            /\ opt_data[k].first_page # PyStr(<<"Y">>)

\* the published records in the order of the sorted file list, which is the
\* order the tasks are submitted in and does not depend on the scheduling
RecordsInInputOrder ==
    LET published == SelectSeq(all_files, LAMBDA f : f \in Range(doc_src))
    IN [i \in 1..Len(published) |-> docs[IndexOf(doc_src, published[i])]]

\* C22: the loadfile written after a run has the data rows of the published
\* records in an order fixed by the input (that of the sorted file list),
\* whatever the order in which the tasks completed.
C22_DeterministicRowOrder ==
    pc = "written" => loadfile = LoadfileText(RecordsInInputOrder)

\* the date and the time of a text that begins YYYY-MM-DDTHH:MM:SS
DateOfStamp(text) ==
    SubSeq(text, 6, 7) \o <<"/">> \o SubSeq(text, 9, 10) \o <<"/">> \o SubSeq(text, 1, 4)

TimeOfStamp(text) == SubSeq(text, 12, 19)

\* C23: the record of a file whose raw creation date is a timestamp
\* YYYY-MM-DDTHH:MM:SS, with or without fraction and UTC marker, as a string
\* or in a list, has that date as MM/DD/YYYY and that time as HH:MM:SS.
C23_DateTimeNormalization ==
    \A i \in 1..Len(docs) :
        LET raw == Get(meta[doc_src[i]], "Creation-Date", PyNone)
        IN raw \in DateInputs =>
              /\ convert_date_safe(raw) = PyStr(DateOfStamp(raw.s))
              /\ convert_time_safe(raw) = PyStr(TimeOfStamp(raw.s))
              /\ docs[i]["DateCreated"] = PyStr(DateOfStamp(raw.s))
              /\ docs[i]["TimeCreated"] = PyStr(TimeOfStamp(raw.s))

\* the file name has none of the tokens the classification looks for
PlainName(fname) ==
    LET filename == Lower(basename(fname))
    IN /\ ~Contains(filename, <<"r", "e", "d", "a", "c", "t", "e", "d">>)
       /\ ~Contains(filename, <<"p", "r", "i", "v", "i", "l", "e", "g", "e", "d">>)
       /\ ~Contains(filename, <<"c", "o", "n", "f", "i", "d", "e", "n", "t", "i", "a", "l">>)

\* the extracted content has an explicit redaction marker
HasRedactionMarker(text) ==
    Contains(text, <<"[REDACTED]">>) \/ Contains(text, <<"***">>)

\* C24: the record of a file with a plain name whose extracted content has a
\* redaction marker has the RedactionType 'Redacted'.
C24_RedactedByContent ==
    \A i \in 1..Len(docs) :
        (PlainName(doc_src[i]) /\ HasRedactionMarker(ContentOf(doc_src[i])))
        => docs[i]["RedactionType"] = PyStr(<<"Redacted">>)

\* C25: once the Bates numbers are pre-assigned, the lookup for a file that is
\* not in the map returns a number that no input file has been assigned.
C25_FreshFallback ==
    pc # "start" =>
       \A f \in Universe \ DOMAIN bates_assignments :
           \A g \in DOMAIN bates_assignments :
               get_bates_for_file(bates_assignments, start_value, f) # bates_assignments[g]

\* the first line of the loadfile
HeaderOf(text) ==
    LET i == FindChar(text, newline) IN IF i = 0 THEN text ELSE SubSeq(text, 1, i)

\* C26: on a loadfile just written by write_loadfile, the loadfile-format
\* check of every validator run passes, as its header line has the configured
\* delimiter and the configured wrapper, under every configuration.
C26_HeaderCheckFollowsConfig ==
    \A k \in 1..Len(integrity) :
        /\ Contains(HeaderOf(loadfile), <<delim>>) /\ Contains(HeaderOf(loadfile), <<wrap>>)
        /\ integrity[k][4] = "PASS"

\* the page entries appended for the file of record i
PageEntriesOf(i) == {j \in 1..Len(opt_data) : opt_src[j] = doc_src[i]}

C28_ContentHash ==
    \A i, j \in 1..Len(docs) :
        (BytesOf(doc_src[i]) = BytesOf(doc_src[j]))
           <=> (docs[i]["HashValue"] = docs[j]["HashValue"])

\* C29: a batch (created with a file at least) whose pending_files is 0 has
\* the batch_status 'completed', whichever review call took its last
\* pending file.
C29_CompletedWhenNonePending ==
    \A b \in DOMAIN batches :
        batches[b].pending_files = 0 => batches[b].batch_status = "completed"

\* C30: when the input directory yields no file, process_files schedules no
\* task, counts 0 processed and 0 failed, and does not end in an exception.
C30_EmptyInputReturns ==
    (pc # "start" /\ all_files = <<>>) =>
        /\ DOMAIN task = {}
        /\ processed_count = 0 /\ failed_count = 0
        /\ pc \notin {"ZeroDivisionError", "TimeoutError"}

====
